---- MODULE Spec2Model ----
(***************************************************************************)
(* Model of src/main.py (AI CheckMate): the document handler               *)
(* handle_document and the functions it calls.  Strings are sequences of   *)
(* one-character strings, so that lower(), split(), strip() and slicing    *)
(* are computed the way Python computes them.                              *)
(***************************************************************************)
EXTENDS Integers, Sequences, FiniteSets, TLC

VARIABLES
    pc,              \* position of each invocation of handle_document
    message,         \* the inbound aiogram Message of the invocation
    file_id,         \* local file_id
    filename,        \* local filename
    tmpdir,          \* the TemporaryDirectory: "none", "exists", "deleted"
    file,            \* what bot.download wrote to file_path
    doc_type,        \* local doc_type
    text,            \* local text
    request,         \* user message of the chat.completions.create call
    response,        \* what the remote service answered
    analysis_result, \* local analysis_result
    sent,            \* messages delivered to the user by message.reply
    log,             \* logger.exception records
    stages,          \* stages of the pipeline that have run, in order
    extractors,      \* extractor functions that were called
    calls,           \* number of chat.completions.create calls made
    exc,             \* origin of the exception that left the handler
    dirs             \* names of the temporary directories that exist on disk

vars == <<pc, message, file_id, filename, tmpdir, file, doc_type, text,
          request, response, analysis_result, sent, log, stages,
          extractors, calls, exc, dirs>>

\* ------------------------------------------------------------------ bounds
MaxParts == 2        \* dot-separated components of a document's file name
MaxPad   == 2        \* whitespace characters around an extracted text
MaxPages == 3        \* pages of a PDF document

\* --------------------------------------------------------------- constants
MinChars  == 200     \* len(text.strip()) < 200
ClipLimit == 60000   \* text[:60_000]

\* ----------------------------------------------------------------- strings
None   == <<"None">>      \* Python's None where a str is expected
NoText == <<"unbound">>   \* a local that has not been assigned

WS == {" ", "\n", "\t"}   \* whitespace removed by str.strip()

Rep(c, n) == [k \in 1..n |-> c]

LowerOf ==
    [c \in {"A","B","C","D","E","F","G","H","I","J","K","L","M","N","O","P",
            "Q","R","S","T","U","V","W","X","Y","Z"} |->
       CASE c = "A" -> "a" [] c = "B" -> "b" [] c = "C" -> "c" [] c = "D" -> "d"
         [] c = "E" -> "e" [] c = "F" -> "f" [] c = "G" -> "g" [] c = "H" -> "h"
         [] c = "I" -> "i" [] c = "J" -> "j" [] c = "K" -> "k" [] c = "L" -> "l"
         [] c = "M" -> "m" [] c = "N" -> "n" [] c = "O" -> "o" [] c = "P" -> "p"
         [] c = "Q" -> "q" [] c = "R" -> "r" [] c = "S" -> "s" [] c = "T" -> "t"
         [] c = "U" -> "u" [] c = "V" -> "v" [] c = "W" -> "w" [] c = "X" -> "x"
         [] c = "Y" -> "y" [] c = "Z" -> "z"]

\* str.lower()
lower(s) == [k \in 1..Len(s) |-> IF s[k] \in DOMAIN LowerOf THEN LowerOf[s[k]] ELSE s[k]]

\* str.split(sep) for a one-character separator
RECURSIVE split(_, _)
split(s, sep) ==
    IF \E k \in 1..Len(s) : s[k] = sep
    THEN LET k == CHOOSE j \in 1..Len(s) :
                     s[j] = sep /\ \A h \in 1..(j-1) : s[h] # sep
         IN  <<SubSeq(s, 1, k-1)>> \o split(SubSeq(s, k+1, Len(s)), sep)
    ELSE <<s>>

RECURSIVE lstrip(_)
lstrip(s) == IF s # <<>> /\ Head(s) \in WS THEN lstrip(Tail(s)) ELSE s

RECURSIVE rstrip(_)
rstrip(s) == IF s # <<>> /\ s[Len(s)] \in WS THEN rstrip(SubSeq(s, 1, Len(s)-1)) ELSE s

\* str.strip()
strip(s) == rstrip(lstrip(s))

\* sep.join(chunks)
RECURSIVE join(_, _)
join(sep, chunks) ==
    IF chunks = <<>> THEN <<>>
    ELSE IF Len(chunks) = 1 THEN chunks[1]
    ELSE chunks[1] \o sep \o join(sep, Tail(chunks))

\* text[:n]
Prefix(s, n) == SubSeq(s, 1, IF Len(s) < n THEN Len(s) ELSE n)

PDF  == <<"p","d","f">>
DOC  == <<"d","o","c">>
DOCX == <<"d","o","c","x">>
JPG  == <<"j","p","g">>
JPEG == <<"j","p","e","g">>
PNG  == <<"p","n","g">>
HEIC == <<"h","e","i","c">>
WEBP == <<"w","e","b","p">>


\* ------------------------------------------------------------------ inputs
Invs == {"u1"}                     \* invocations of handle_document

F1 == <<"A","g","1">>              \* Telegram file identifiers
F2 == <<"B","_","2">>
F3 == <<"c",".","P","D","F">>

\* components a document's file name is built from
Words == {PDF, <<"P","D","F">>, <<"P","d","f">>, DOC, DOCX, <<"D","o","c","X">>,
          JPG, JPEG, PNG, HEIC, WEBP, <<"x","l","s","x">>, <<"a">>, <<>>}

FileNames ==
    {join(<<".">>, parts) : parts \in UNION {[1..k -> Words] : k \in 1..MaxParts}}

\* message.photo: the sizes of one photo, smallest first
Photos == {<<[file_id |-> F1, width |-> 90]>>,
           <<[file_id |-> F1, width |-> 90], [file_id |-> F2, width |-> 1280]>>,
           <<[file_id |-> F1, width |-> 90], [file_id |-> F2, width |-> 320],
             [file_id |-> F3, width |-> 1280]>>}

Messages ==
    {[content_type |-> "document", file_id |-> F1, file_name |-> n, photo |-> <<>>] :
        n \in FileNames \cup {None}}
    \cup
    {[content_type |-> "photo", file_id |-> None, file_name |-> None, photo |-> p] :
        p \in Photos}

NoMessage == [content_type |-> "none", file_id |-> None, file_name |-> None, photo |-> <<>>]

\* n characters that begin and end with a letter and hold blanks inside
Core(n) == [k \in 1..n |-> IF k \in {1, n} THEN "x" ELSE IF k % 7 = 0 THEN " " ELSE "x"]

Pad(l, n, t) == Rep(" ", l) \o Core(n) \o Rep("\n", t)

Texts == {Pad(l, n, t) : l \in {0, MaxPad}, n \in {0, MinChars - 1, MinChars}, t \in {0, MaxPad}}

\* a downloaded file as the parsing libraries see it: corrupt (they raise),
\* or its pages (pdfplumber) and its plain text (docx2txt, pytesseract)
Files ==
    {[corrupt |-> TRUE, pages |-> <<>>, plain |-> <<>>]}
    \cup {[corrupt |-> FALSE, pages |-> <<t>>, plain |-> t] : t \in Texts}
    \cup {[corrupt |-> FALSE, pages |-> <<Core(99), e, Core(n)>>, plain |-> Core(99) \o Core(n)] :
             e \in {None, <<>>}, n \in {98, 99}}

NoFile == [corrupt |-> TRUE, pages |-> <<>>, plain |-> NoText]

\* documents of the second specification: few names, many file contents
DocMessages ==
    {[content_type |-> "document", file_id |-> F1, file_name |-> n, photo |-> <<>>] :
        n \in {<<"a", ".">> \o PDF, <<"a", ".">> \o DOCX, <<"a">>}}
    \cup
    {[content_type |-> "photo", file_id |-> None, file_name |-> None,
      photo |-> <<[file_id |-> F1, width |-> 90]>>]}

PA == <<"o","n","e">>
PB == <<"t","w","o","\n">>

\* what page.extract_text() returns for one page
PageTexts == {None, <<>>, PA, PB}

\* PDF files of one to MaxPages short pages
PdfFiles ==
    {[corrupt |-> FALSE, pages |-> ps,
      plain |-> join(<<>>, [k \in 1..Len(ps) |-> IF ps[k] = None THEN <<>> ELSE ps[k]])] :
        ps \in UNION {[1..n -> PageTexts] : n \in 1..MaxPages}}

DocFiles ==
    {[corrupt |-> TRUE, pages |-> <<>>, plain |-> <<>>]}
    \cup PdfFiles
    \cup {[corrupt |-> FALSE, pages |-> <<Core(MinChars), None, PA>>,
           plain |-> Core(MinChars) \o PA]}

\* one page of a long PDF: six of them and their separators are one character
\* short of the clip limit
Chunk == Core(ClipLimit \div 6 - 1)

\* PDF files whose text passes the length test: short ones, and six-page ones whose
\* text is one character shorter than the clip limit, as long, or one or two longer
ClipFiles ==
    {[corrupt |-> FALSE, pages |-> ps, plain |-> <<>>] :
        ps \in {<<Core(MinChars)>>, <<Pad(MaxPad, MinChars, MaxPad)>>,
                <<Core(MinChars), None, PA>>}
            \cup {<<Chunk, Chunk, Chunk, Chunk, Chunk, Core(Len(Chunk) + d)>> : d \in 0..3}}

R1 == <<"R","i","s","k"," ","1">>
R2 == <<"R","2">>

\* answers of the remote service: an error, or the content of each choice
Responses ==
    {[error |-> TRUE, choices |-> <<>>]}
    \cup {[error |-> FALSE, choices |-> c] :
            c \in {<<>>, <<None>>, <<<<>>>>, <<Rep(" ", 2)>>, <<R1>>,
                   <<<<" ">> \o R1 \o <<"\n">>>>, <<R2, R1>>}}

NoResponse == [error |-> FALSE, choices |-> <<NoText>>]

\* --------------------------------------------------------------- functions
Raise == [raised |-> TRUE, value |-> NoText]
Return(v) == [raised |-> FALSE, value |-> v]

\* extract_text_from_pdf returning the chunks read so far where the parser raises
extract_text_from_pdf_Partial(f) ==
    Return(join(<<"\n">>,
                [k \in 1..Len(f.pages) |->
                   IF f.pages[k] \in {None, <<>>} THEN <<>> ELSE f.pages[k]]))

HasText(p) == p \notin {None, <<>>}

\* extract_text_from_pdf appending only the pages that have text
extract_text_from_pdf_SkipEmpty(f) ==
    IF f.corrupt THEN Raise ELSE Return(join(<<"\n">>, SelectSeq(f.pages, HasText)))

\* def extract_text_from_pdf(path)
extract_text_from_pdf(f) ==
    IF f.corrupt THEN Raise
    ELSE Return(join(<<"\n">>,
                     [k \in 1..Len(f.pages) |->
                        IF f.pages[k] \in {None, <<>>} THEN <<>> ELSE f.pages[k]]))

\* def extract_text_from_image(path)
extract_text_from_image(f) == IF f.corrupt THEN Raise ELSE Return(f.plain)

\* def extract_text_from_docx(path)
extract_text_from_docx(f) == IF f.corrupt THEN Raise ELSE Return(f.plain)

\* guess_document_type without .lower()
guess_document_type_NoLower(name) ==
    LET parts == split(name, ".") IN parts[Len(parts)]

\* def guess_document_type(filename)
guess_document_type(name) ==
    LET parts == split(lower(name), ".") IN parts[Len(parts)]

\* the extractor the if/elif chain of handle_document selects, "none" for the else branch
Route(dt) ==
    IF dt = PDF THEN "pdf"
    ELSE IF dt \in {DOC, DOCX} THEN "docx"
    ELSE IF dt \in {JPG, JPEG, PNG, HEIC, WEBP} THEN "image"
    ELSE "none"

Extractor(kind, f) ==
    CASE kind = "pdf"   -> extract_text_from_pdf(f)
      [] kind = "docx"  -> extract_text_from_docx(f)
      [] kind = "image" -> extract_text_from_image(f)

\* the user message clipped at the length threshold instead of the clip limit
UserMessage_ClipAtMinChars(t) == Prefix(t, MinChars)

\* the user message built by analyze_document_text
UserMessage(t) == Prefix(t, ClipLimit)

\* async def analyze_document_text(text), given the answer of the service
analyze_document_text(t, r) ==
    IF r.error THEN Raise
    ELSE IF r.choices = <<>> THEN Raise                \* IndexError
    ELSE IF r.choices[1] = None THEN Raise             \* AttributeError
    ELSE Return(strip(r.choices[1]))

\* the length test without .strip()
Valid_NoStrip(t) == ~ (Len(t) < MinChars)

\* len(text.strip()) < 200 is the sparse case
Valid(t) == ~ (Len(strip(t)) < MinChars)

\* a directory removed at the end of the block only, with no context manager
Cleanup_OnReturnOnly(t, raising) == IF t = "exists" /\ ~raising THEN "deleted" ELSE t

\* with tempfile.TemporaryDirectory(): the state of the directory after __exit__
Cleanup(t, raising) == IF t = "exists" THEN "deleted" ELSE t

\* one directory name shared by every invocation
TmpName_Shared(i) == <<"tmp">>

\* the name tempfile gives the directory of invocation i: fresh for every call
TmpName(i) == <<"tmp", i>>

\* message.photo[0]
PickPhoto_First(photo) == photo[1]

\* message.photo[-1]
PickPhoto(photo) == photo[Len(photo)]

\* ------------------------------------------------------------ control flow
Msg(kind) == [kind |-> kind, body |-> <<>>]
Ack              == Msg("ack")
UnsupportedFormat == Msg("unsupported")
ExtractionFailed == Msg("extraction_failed")
ContentTooSparse == Msg("too_sparse")
AnalysisFailed   == Msg("analysis_failed")
Result(t)        == [kind |-> "result", body |-> t]

FailureMessages == {UnsupportedFormat, ExtractionFailed, ContentTooSparse, AnalysisFailed}

\* where the handler goes after guess_document_type
AfterClassify(dt) == IF Route(dt) = "none" THEN "reply_unsupported" ELSE "extract"

\* where the handler goes after the extractor call
AfterExtract(raised) == IF raised THEN "reply_extraction_failed" ELSE "validate"

\* where the handler goes after the length test
AfterValidate(valid) == IF valid THEN "analyze" ELSE "reply_too_sparse"

\* a handler that calls the service again when the call raised
AfterAnalyze_Retry(raised) == IF raised THEN "analyze" ELSE "deliver"

\* where the handler goes after analyze_document_text
AfterAnalyze(raised) == IF raised THEN "reply_analysis_failed" ELSE "deliver"

\* the sparse branch without its return statement
AfterReply_NoReturn(at, ok) ==
    CASE at = "ack" -> IF ok THEN "download" ELSE "raised"
      [] at = "reply_unsupported" ->
            IF ok THEN "returned" ELSE "reply_extraction_failed"
      [] at = "reply_too_sparse" -> IF ok THEN "analyze" ELSE "raised"
      [] at \in {"reply_extraction_failed", "reply_analysis_failed", "deliver"} ->
            IF ok THEN "returned" ELSE "raised"

\* the analysis-failure branch without its return statement
AfterReply_FailThenDeliver(at, ok) ==
    CASE at = "ack" -> IF ok THEN "download" ELSE "raised"
      [] at = "reply_unsupported" ->
            IF ok THEN "returned" ELSE "reply_extraction_failed"
      [] at = "reply_analysis_failed" -> IF ok THEN "deliver" ELSE "raised"
      [] at \in {"reply_extraction_failed", "reply_too_sparse", "deliver"} ->
            IF ok THEN "returned" ELSE "raised"

\* the acknowledgment inside a try block that swallows its exception
AfterReply_AckIgnored(at, ok) ==
    CASE at = "ack" -> "download"
      [] at = "reply_unsupported" ->
            IF ok THEN "returned" ELSE "reply_extraction_failed"
      [] at \in {"reply_extraction_failed", "reply_too_sparse",
                 "reply_analysis_failed", "deliver"} ->
            IF ok THEN "returned" ELSE "raised"

\* where the handler goes after a message.reply at position at
AfterReply(at, ok) ==
    CASE at = "ack" -> IF ok THEN "download" ELSE "raised"
      [] at = "reply_unsupported" ->
            \* the reply is inside the try block: its exception reaches the except clause
            IF ok THEN "returned" ELSE "reply_extraction_failed"
      [] at \in {"reply_extraction_failed", "reply_too_sparse",
                 "reply_analysis_failed", "deliver"} ->
            IF ok THEN "returned" ELSE "raised"

\* positions between two awaits: the coroutine is running and holds the event loop
Running(j) == pc[j] \in {"classify", "extract", "validate"}

\* asyncio runs one coroutine at a time: i is resumed only when no other is running
LoopFree(i) == \A j \in DOMAIN pc \ {i} : ~Running(j)

\* ----------------------------------------------------------------- actions
Init ==
    /\ pc = [i \in Invs |-> "idle"]
    /\ message = [i \in Invs |-> NoMessage]
    /\ file_id = [i \in Invs |-> None]
    /\ filename = [i \in Invs |-> NoText]
    /\ tmpdir = [i \in Invs |-> "none"]
    /\ file = [i \in Invs |-> NoFile]
    /\ doc_type = [i \in Invs |-> NoText]
    /\ text = [i \in Invs |-> NoText]
    /\ request = [i \in Invs |-> NoText]
    /\ response = [i \in Invs |-> NoResponse]
    /\ analysis_result = [i \in Invs |-> NoText]
    /\ sent = [i \in Invs |-> <<>>]
    /\ log = [i \in Invs |-> <<>>]
    /\ stages = [i \in Invs |-> <<>>]
    /\ extractors = [i \in Invs |-> <<>>]
    /\ calls = [i \in Invs |-> 0]
    /\ exc = [i \in Invs |-> "none"]
    /\ dirs = {}

\* the dispatcher hands a document or photo message to handle_document
ReceiveFrom(i, msgs) ==
    /\ pc[i] = "idle"
    /\ LoopFree(i)
    /\ \E m \in msgs : message' = [message EXCEPT ![i] = m]
    /\ pc' = [pc EXCEPT ![i] = "ack"]
    /\ UNCHANGED <<file_id, filename, tmpdir, file, doc_type, text, request, response,
                   analysis_result, sent, log, stages, extractors, calls, exc, dirs>>

Receive(i) == ReceiveFrom(i, Messages)

\* the handler is left from position `next`: the with block releases the directory
Leave(i, next, origin) ==
    /\ tmpdir' = [tmpdir EXCEPT ![i] =
                    IF next \in {"returned", "raised"}
                    THEN Cleanup(tmpdir[i], next = "raised") ELSE tmpdir[i]]
    /\ dirs' = IF next \in {"returned", "raised"}
                  /\ Cleanup(tmpdir[i], next = "raised") = "deleted"
               THEN dirs \ {TmpName(i)} ELSE dirs
    /\ exc' = [exc EXCEPT ![i] = IF next = "raised" THEN origin ELSE exc[i]]

\* line 100: the acknowledgment; then lines 103-112 up to the await of the download
ReplyAck(i) ==
    /\ pc[i] = "ack"
    /\ LoopFree(i)
    /\ \E ok \in BOOLEAN :
         /\ pc' = [pc EXCEPT ![i] = AfterReply("ack", ok)]
         /\ IF ok
            THEN /\ sent' = [sent EXCEPT ![i] = Append(sent[i], Ack)]
                 /\ tmpdir' = [tmpdir EXCEPT ![i] = "exists"]
                 /\ dirs' = dirs \cup {TmpName(i)}
                 /\ IF message[i].content_type = "document"
                    THEN /\ file_id' = [file_id EXCEPT ![i] = message[i].file_id]
                         /\ filename' = [filename EXCEPT ![i] =
                               IF message[i].file_name \in {None, <<>>}
                               THEN <<"d","o","c","u","m","e","n","t">>
                               ELSE message[i].file_name]
                    ELSE LET fid == PickPhoto(message[i].photo).file_id IN
                         /\ file_id' = [file_id EXCEPT ![i] = fid]
                         /\ filename' = [filename EXCEPT ![i] =
                               <<"p","h","o","t","o","_">> \o fid \o <<".","j","p","g">>]
                 /\ UNCHANGED exc
            ELSE /\ exc' = [exc EXCEPT ![i] = "reply"]
                 /\ UNCHANGED <<sent, tmpdir, dirs, file_id, filename>>
    /\ UNCHANGED <<message, file, doc_type, text, request, response, analysis_result,
                   log, stages, extractors, calls>>

\* line 112: await bot.download(file_id, destination=file_path)
DownloadFrom(i, fs) ==
    /\ pc[i] = "download"
    /\ LoopFree(i)
    /\ \/ /\ TmpName(i) \in dirs
          /\ \E f \in fs : file' = [file EXCEPT ![i] = f]
          /\ pc' = [pc EXCEPT ![i] = "classify"]
          /\ UNCHANGED <<tmpdir, exc, dirs>>
       \/ /\ pc' = [pc EXCEPT ![i] = "raised"]
          /\ Leave(i, "raised", "download")
          /\ UNCHANGED file
    /\ UNCHANGED <<message, file_id, filename, doc_type, text, request, response,
                   analysis_result, sent, log, stages, extractors, calls>>

Download(i) == DownloadFrom(i, Files)

\* line 115: doc_type = guess_document_type(filename), and the if/elif chain
Classify(i) ==
    /\ pc[i] = "classify"
    /\ LoopFree(i)
    /\ doc_type' = [doc_type EXCEPT ![i] = guess_document_type(filename[i])]
    /\ stages' = [stages EXCEPT ![i] = Append(stages[i], "classify")]
    /\ pc' = [pc EXCEPT ![i] = AfterClassify(doc_type'[i])]
    /\ UNCHANGED <<message, file_id, filename, tmpdir, file, text, request, response,
                   analysis_result, sent, log, extractors, calls, exc, dirs>>

\* lines 116-122 and 126-127: the selected extractor inside the try block
Extract(i) ==
    /\ pc[i] = "extract"
    /\ LoopFree(i)
    /\ LET kind == Route(doc_type[i])
           r    == Extractor(kind, file[i])
       IN  /\ extractors' = [extractors EXCEPT ![i] = Append(extractors[i], kind)]
           /\ stages' = [stages EXCEPT ![i] = Append(stages[i], "extract")]
           /\ text' = [text EXCEPT ![i] = IF r.raised THEN text[i] ELSE r.value]
           /\ log' = [log EXCEPT ![i] =
                        IF r.raised THEN Append(log[i], "Extract error") ELSE log[i]]
           /\ pc' = [pc EXCEPT ![i] = AfterExtract(r.raised)]
    /\ UNCHANGED <<message, file_id, filename, tmpdir, file, doc_type, request, response,
                   analysis_result, sent, calls, exc, dirs>>

\* await message.reply(m) at position `at`
Reply(i, at, m) ==
    /\ pc[i] = at
    /\ LoopFree(i)
    /\ \E ok \in BOOLEAN :
         LET next == AfterReply(at, ok) IN
         /\ pc' = [pc EXCEPT ![i] = next]
         /\ sent' = [sent EXCEPT ![i] = IF ok THEN Append(sent[i], m) ELSE sent[i]]
         /\ log' = [log EXCEPT ![i] =
                      IF next = "reply_extraction_failed"
                      THEN Append(log[i], "Extract error") ELSE log[i]]
         /\ Leave(i, next, "reply")
    /\ UNCHANGED <<message, file_id, filename, file, doc_type, text, request, response,
                   analysis_result, extractors, calls>>

\* line 124
ReplyUnsupported(i) == Reply(i, "reply_unsupported", UnsupportedFormat) /\ UNCHANGED stages

\* line 128
ReplyExtractionFailed(i) ==
    Reply(i, "reply_extraction_failed", ExtractionFailed) /\ UNCHANGED stages

\* line 131
Validate(i) ==
    /\ pc[i] = "validate"
    /\ LoopFree(i)
    /\ stages' = [stages EXCEPT ![i] = Append(stages[i], "validate")]
    /\ pc' = [pc EXCEPT ![i] = AfterValidate(Valid(text[i]))]
    /\ UNCHANGED <<message, file_id, filename, tmpdir, file, doc_type, text, request,
                   response, analysis_result, sent, log, extractors, calls, exc, dirs>>

\* line 132
ReplyTooSparse(i) == Reply(i, "reply_too_sparse", ContentTooSparse) /\ UNCHANGED stages

\* lines 136-139: analysis_result = await analyze_document_text(text)
AnalyzeFrom(i, rs) ==
    /\ pc[i] = "analyze"
    /\ LoopFree(i)
    /\ \E r \in rs :
         LET res == analyze_document_text(text[i], r) IN
         /\ response' = [response EXCEPT ![i] = r]
         /\ request' = [request EXCEPT ![i] = UserMessage(text[i])]
         /\ calls' = [calls EXCEPT ![i] = calls[i] + 1]
         /\ stages' = [stages EXCEPT ![i] = Append(stages[i], "analyze")]
         /\ analysis_result' = [analysis_result EXCEPT ![i] =
                                  IF res.raised THEN analysis_result[i] ELSE res.value]
         /\ log' = [log EXCEPT ![i] =
                      IF res.raised THEN Append(log[i], "LLM error") ELSE log[i]]
         /\ pc' = [pc EXCEPT ![i] = AfterAnalyze(res.raised)]
    /\ UNCHANGED <<message, file_id, filename, tmpdir, file, doc_type, text, sent,
                   extractors, exc, dirs>>

Analyze(i) == AnalyzeFrom(i, Responses)

\* line 140
ReplyAnalysisFailed(i) ==
    Reply(i, "reply_analysis_failed", AnalysisFailed) /\ UNCHANGED stages

\* line 144: await message.reply(analysis_result, disable_web_page_preview=True)
Deliver(i) ==
    /\ Reply(i, "deliver", Result(analysis_result[i]))
    /\ stages' = [stages EXCEPT ![i] = Append(stages[i], "deliver")]

Next ==
    \E i \in Invs :
       \/ Receive(i)
       \/ ReplyAck(i)
       \/ Download(i)
       \/ Classify(i)
       \/ Extract(i)
       \/ ReplyUnsupported(i)
       \/ ReplyExtractionFailed(i)
       \/ Validate(i)
       \/ ReplyTooSparse(i)
       \/ Analyze(i)
       \/ ReplyAnalysisFailed(i)
       \/ Deliver(i)

Spec == Init /\ [][Next]_vars

\* the same handler on the documents of DocMessages and DocFiles
ReceiveDoc(i) == ReceiveFrom(i, DocMessages)

DownloadDoc(i) == DownloadFrom(i, DocFiles)

NextDocs ==
    \E i \in Invs :
       \/ ReceiveDoc(i)
       \/ ReplyAck(i)
       \/ DownloadDoc(i)
       \/ Classify(i)
       \/ Extract(i)
       \/ ReplyUnsupported(i)
       \/ ReplyExtractionFailed(i)
       \/ Validate(i)
       \/ ReplyTooSparse(i)
       \/ Analyze(i)
       \/ ReplyAnalysisFailed(i)
       \/ Deliver(i)

SpecDocs == Init /\ [][NextDocs]_vars

\* analyze_document_text applied to the texts of ClipFiles: the handler has reached
\* line 137 for the document a.pdf whose extracted text passed the length test
InitClip ==
    /\ pc = [i \in Invs |-> "analyze"]
    /\ message = [i \in Invs |->
                    [content_type |-> "document", file_id |-> F1,
                     file_name |-> <<"a", ".">> \o PDF, photo |-> <<>>]]
    /\ file_id = [i \in Invs |-> F1]
    /\ filename = [i \in Invs |-> <<"a", ".">> \o PDF]
    /\ tmpdir = [i \in Invs |-> "exists"]
    /\ dirs = {TmpName(i) : i \in Invs}
    /\ \E f \in ClipFiles :
          /\ file = [i \in Invs |-> f]
          /\ text = [i \in Invs |-> extract_text_from_pdf(f).value]
    /\ doc_type = [i \in Invs |-> guess_document_type(<<"a", ".">> \o PDF)]
    /\ request = [i \in Invs |-> NoText]
    /\ response = [i \in Invs |-> NoResponse]
    /\ analysis_result = [i \in Invs |-> NoText]
    /\ sent = [i \in Invs |-> <<Ack>>]
    /\ log = [i \in Invs |-> <<>>]
    /\ stages = [i \in Invs |-> <<"classify", "extract", "validate">>]
    /\ extractors = [i \in Invs |-> <<"pdf">>]
    /\ calls = [i \in Invs |-> 0]
    /\ exc = [i \in Invs |-> "none"]

NextClip ==
    \E i \in Invs :
       \/ Analyze(i)
       \/ ReplyAnalysisFailed(i)
       \/ Deliver(i)

SpecClip == InitClip /\ [][NextClip]_vars

\* two updates the dispatcher hands to handle_document as concurrent tasks of one
\* event loop
Tasks == {"t1", "t2"}

ConcMessages ==
    {[content_type |-> "document", file_id |-> F1, file_name |-> n, photo |-> <<>>] :
        n \in {<<"a", ".">> \o PDF, <<"a">>}}
    \cup
    {[content_type |-> "photo", file_id |-> None, file_name |-> None,
      photo |-> <<[file_id |-> F1, width |-> 90], [file_id |-> F2, width |-> 1280]>>]}

ConcFiles ==
    {[corrupt |-> TRUE, pages |-> <<>>, plain |-> <<>>],
     [corrupt |-> FALSE, pages |-> <<PA>>, plain |-> PA],
     [corrupt |-> FALSE, pages |-> <<Core(MinChars)>>, plain |-> Core(MinChars)]}

ConcResponses ==
    {[error |-> TRUE, choices |-> <<>>],
     [error |-> FALSE, choices |-> <<>>],
     [error |-> FALSE, choices |-> <<R1>>]}

InitConc ==
    /\ pc = [i \in Tasks |-> "idle"]
    /\ message = [i \in Tasks |-> NoMessage]
    /\ file_id = [i \in Tasks |-> None]
    /\ filename = [i \in Tasks |-> NoText]
    /\ tmpdir = [i \in Tasks |-> "none"]
    /\ file = [i \in Tasks |-> NoFile]
    /\ doc_type = [i \in Tasks |-> NoText]
    /\ text = [i \in Tasks |-> NoText]
    /\ request = [i \in Tasks |-> NoText]
    /\ response = [i \in Tasks |-> NoResponse]
    /\ analysis_result = [i \in Tasks |-> NoText]
    /\ sent = [i \in Tasks |-> <<>>]
    /\ log = [i \in Tasks |-> <<>>]
    /\ stages = [i \in Tasks |-> <<>>]
    /\ extractors = [i \in Tasks |-> <<>>]
    /\ calls = [i \in Tasks |-> 0]
    /\ exc = [i \in Tasks |-> "none"]
    /\ dirs = {}

\* one step of task i: it is resumed at an await, or runs on to its next await
StepConc(i) ==
    \/ ReceiveFrom(i, ConcMessages)
    \/ ReplyAck(i)
    \/ DownloadFrom(i, ConcFiles)
    \/ Classify(i)
    \/ Extract(i)
    \/ ReplyUnsupported(i)
    \/ ReplyExtractionFailed(i)
    \/ Validate(i)
    \/ ReplyTooSparse(i)
    \/ AnalyzeFrom(i, ConcResponses)
    \/ ReplyAnalysisFailed(i)
    \/ Deliver(i)

NextConc == \E i \in Tasks : StepConc(i)

SpecConc == InitConc /\ [][NextConc]_vars

Ended(i) == pc[i] \in {"returned", "raised"}

\* ------------------------------------------------------------ vocabulary
Range(q) == {q[k] : k \in 1..Len(q)}

SentFailures(i) == Range(sent[i]) \cap FailureMessages

ResultSent(i) == \E m \in Range(sent[i]) : m.kind = "result"

Ran(i, stage) == stage \in Range(stages[i])

Order == <<"classify", "extract", "validate", "analyze", "deliver">>

\* number of characters left when leading and trailing whitespace is removed
StrippedLen(t) ==
    IF \A k \in 1..Len(t) : t[k] \in WS THEN 0
    ELSE LET first == CHOOSE k \in 1..Len(t) : t[k] \notin WS /\ \A j \in 1..(k-1) : t[j] \in WS
             last  == CHOOSE k \in 1..Len(t) : t[k] \notin WS /\ \A j \in (k+1)..Len(t) : t[j] \in WS
         IN  last - first + 1

HasDot(name) == "." \in Range(name)

\* the text after the last '.' of a name that has one
Ext(name) ==
    LET d == CHOOSE k \in 1..Len(name) : name[k] = "." /\ \A j \in (k+1)..Len(name) : name[j] # "."
    IN  SubSeq(name, d + 1, Len(name))

\* equality of two strings up to the case of their letters
SameIgnoringCase(a, b) ==
    /\ Len(a) = Len(b)
    /\ \A k \in 1..Len(a) :
          \/ a[k] = b[k]
          \/ a[k] \in DOMAIN LowerOf /\ LowerOf[a[k]] = b[k]
          \/ b[k] \in DOMAIN LowerOf /\ LowerOf[b[k]] = a[k]

\* the strategy the specification assigns to an extension
Strategy(e) ==
    IF SameIgnoringCase(e, PDF) THEN "pdf"
    ELSE IF \E w \in {DOC, DOCX} : SameIgnoringCase(e, w) THEN "docx"
    ELSE IF \E w \in {JPG, JPEG, PNG, HEIC, WEBP} : SameIgnoringCase(e, w) THEN "image"
    ELSE "none"

ExtractorFailed(i) == Ran(i, "extract") /\ file[i].corrupt

ValidationFailed(i) == Ran(i, "validate") /\ StrippedLen(text[i]) < MinChars

ServiceFailed(i) == calls[i] > 0 /\ response[i].error

StageFailed(i) ==
    exc[i] = "download" \/ ExtractorFailed(i) \/ ValidationFailed(i) \/ ServiceFailed(i)

\* ------------------------------------------------------------------ claims

\* C1: in every finished invocation in which a stage failed (download, extractor,
\* validation, remote call) and every reply went through, the handler returned
\* normally and sent exactly one of the four failure messages.
C1_StageFailureCaught ==
    \A i \in Invs :
       (Ended(i) /\ StageFailed(i) /\ exc[i] # "reply") =>
           /\ pc[i] = "returned"
           /\ Cardinality(SentFailures(i)) = 1

\* C2: when an invocation has ended, on whichever path, the temporary directory
\* it acquired has been deleted.
C2_TmpdirReleased ==
    \A i \in Invs :
       Ended(i) =>
           /\ tmpdir[i] # "exists"
           /\ (Len(sent[i]) > 0 => tmpdir[i] = "deleted")

C2_Witness ==
    \E i \in Invs : pc[i] = "raised" /\ exc[i] = "download" /\ tmpdir[i] = "deleted"

\* C3: the stages that have run are a prefix of classify, extract, validate,
\* analyze, deliver; once a failure message has been sent the invocation has
\* returned (no later stage runs); a result is delivered only after a successful
\* extraction, a passed validation and one successful remote call.
C3_OrderAndShortCircuit ==
    \A i \in Invs :
       /\ Len(stages[i]) <= Len(Order)
       /\ stages[i] = SubSeq(Order, 1, Len(stages[i]))
       /\ (SentFailures(i) # {} => pc[i] = "returned" /\ ~Ran(i, "deliver"))
       /\ (ResultSent(i) =>
              /\ stages[i] = Order
              /\ ~file[i].corrupt
              /\ text[i] # NoText
              /\ StrippedLen(text[i]) >= MinChars
              /\ calls[i] = 1
              /\ ~response[i].error
              /\ SentFailures(i) = {})

C3_Witness ==
    \E i \in Invs : pc[i] = "returned" /\ stages[i] = Order /\ ResultSent(i)

\* C4: in an invocation whose filename classifies as unsupported no extractor is
\* invoked, no remote call is made and no failure message other than
\* UnsupportedFormat is sent.
C4_UnsupportedOnly ==
    \A i \in Invs :
       (Ran(i, "classify") /\ Route(doc_type[i]) = "none") =>
           /\ extractors[i] = <<>>
           /\ calls[i] = 0
           /\ SentFailures(i) \subseteq {UnsupportedFormat}

\* C5: when the extractor of a supported kind raises on a corrupt file, no text
\* is kept, validation and analysis do not run, no remote call is made, and the
\* only message after the acknowledgment is ExtractionFailed.
C5_ExtractionFailedOnly ==
    \A i \in Invs :
       ExtractorFailed(i) =>
           /\ extractors[i] \in {<<"pdf">>, <<"docx">>, <<"image">>}
           /\ text[i] = NoText
           /\ stages[i] = <<"classify", "extract">>
           /\ calls[i] = 0
           /\ Range(sent[i]) \subseteq {Ack, ExtractionFailed}
           /\ (pc[i] = "returned" => sent[i] = <<Ack, ExtractionFailed>>)

C5_Witness ==
    \E i \in Invs :
       /\ ExtractorFailed(i) /\ extractors[i] = <<"pdf">>
       /\ pc[i] = "returned" /\ sent[i] = <<Ack, ExtractionFailed>>

\* C6: after a successful extraction, a text with fewer than 200 characters once
\* stripped leads to ContentTooSparse and no remote call; a text with 200 or more
\* (exactly 200 included) passes validation and the remote call is made.
C6_Threshold ==
    \A i \in Invs :
       Ran(i, "validate") =>
           IF StrippedLen(text[i]) < MinChars
           THEN /\ calls[i] = 0
                /\ pc[i] \in {"reply_too_sparse", "returned", "raised"}
                /\ Range(sent[i]) \subseteq {Ack, ContentTooSparse}
                /\ (pc[i] = "returned" => sent[i] = <<Ack, ContentTooSparse>>)
           ELSE /\ ContentTooSparse \notin Range(sent[i])
                /\ pc[i] # "reply_too_sparse"
                /\ (pc[i] = "analyze" \/ calls[i] = 1)

C6_Witness ==
    \E i \in Invs :
       /\ Ran(i, "validate")
       /\ StrippedLen(text[i]) = MinChars /\ Len(text[i]) > MinChars
       /\ calls[i] = 1

Malformed(r) == ~r.error /\ (r.choices = <<>> \/ r.choices[1] \in {None, <<>>})

\* C8: when the service answers with a malformed response the analysis fails:
\* the deliver step is never reached, no result is sent, and an invocation that
\* returns has sent AnalysisFailed.
C8_MalformedFails ==
    \A i \in Invs :
       (calls[i] > 0 /\ Malformed(response[i])) =>
           /\ pc[i] # "deliver"
           /\ ~Ran(i, "deliver")
           /\ ~ResultSent(i)
           /\ (pc[i] = "returned" => AnalysisFailed \in Range(sent[i]))

\* C9: for a filename with an extension the route is the strategy of the text
\* after the last '.', compared case-insensitively: the extractor invoked is that
\* strategy's, and none is invoked for any other extension.
C9_RouteByExtension ==
    \A i \in Invs :
       (Ran(i, "classify") /\ HasDot(filename[i])) =>
           LET want == Strategy(Ext(filename[i])) IN
           IF want = "none"
           THEN extractors[i] = <<>> /\ pc[i] # "extract"
           ELSE /\ pc[i] # "reply_unsupported"
                /\ UnsupportedFormat \notin Range(sent[i])
                /\ (pc[i] = "extract" \/ extractors[i] = <<want>>)

C9_Witness ==
    \E i \in Invs :
       /\ message[i].content_type = "document"
       /\ HasDot(filename[i])
       /\ Ext(filename[i]) = <<"D","o","c","X">>
       /\ extractors[i] = <<"docx">>

\* C10: a document whose file name has no '.' (or is empty or absent) is
\* unsupported: no extractor is invoked for it.
C10_NoExtensionUnsupported ==
    \A i \in Invs :
       (message[i].content_type = "document" /\ ~HasDot(message[i].file_name)) =>
           /\ pc[i] # "extract"
           /\ extractors[i] = <<>>

\* the answer from which analyze_document_text returns a result
WellFormed(r) == ~r.error /\ r.choices # <<>> /\ r.choices[1] # None

\* C11: the user message of an analysis request is the first min(len(text), 60000)
\* characters of the text: the text itself when it has at most 60000 characters,
\* its first 60000 characters otherwise; clipping is not an error.
C11_ClipPrefix ==
    \A i \in Invs :
       calls[i] > 0 =>
           LET n == IF Len(text[i]) <= ClipLimit THEN Len(text[i]) ELSE ClipLimit IN
           /\ Len(request[i]) = n
           /\ Len(request[i]) <= ClipLimit
           /\ request[i] \o SubSeq(text[i], n + 1, Len(text[i])) = text[i]
           /\ (Len(text[i]) <= ClipLimit => request[i] = text[i])
           /\ (WellFormed(response[i]) =>
                  /\ pc[i] \in {"deliver", "returned", "raised"}
                  /\ AnalysisFailed \notin Range(sent[i]))

C11_Witness ==
    \E i \in Invs :
       /\ calls[i] = 1
       /\ Len(text[i]) > ClipLimit
       /\ Len(request[i]) = ClipLimit

\* the text a page contributes
PageText(p) == IF p = None THEN <<>> ELSE p

\* number of characters of the output that precede page k
RECURSIVE Offset(_, _)
Offset(ps, k) == IF k = 1 THEN 0 ELSE Offset(ps, k - 1) + Len(PageText(ps[k - 1])) + 1

\* C15: the text extracted from a PDF of n pages is the page texts in page order,
\* a page without text contributing the empty string, with one newline between
\* consecutive pages (n-1 separators).
C15_PdfJoin ==
    \A i \in Invs :
       (extractors[i] = <<"pdf">> /\ ~file[i].corrupt) =>
           LET ps == file[i].pages
               n  == Len(ps)
               t  == text[i]
           IN  /\ Len(t) = Offset(ps, n) + Len(PageText(ps[n]))
               /\ \A k \in 1..n :
                     LET o == Offset(ps, k)
                         l == Len(PageText(ps[k]))
                     IN  /\ SubSeq(t, o + 1, o + l) = PageText(ps[k])
                         /\ (k < n => t[o + l + 1] = "\n")

C15_Witness ==
    \E i \in Invs :
       /\ extractors[i] = <<"pdf">>
       /\ file[i].pages = <<PA, None, PB>>
       /\ text[i] = PA \o <<"\n", "\n">> \o PB

\* C12: while an invocation is inside the download, an extraction strategy or the
\* remote call, every other invocation that has not ended can take a step
C12_NoBlocking ==
    \A i \in DOMAIN pc : \A j \in DOMAIN pc \ {i} :
       (pc[i] \in {"download", "extract", "analyze"} /\ ~Ended(j)) => ENABLED StepConc(j)

\* everything invocation j owns: its locals, its messages, its directory on disk
Locals(j) ==
    <<pc[j], message[j], file_id[j], filename[j], tmpdir[j], file[j], doc_type[j],
      text[j], request[j], response[j], analysis_result[j], sent[j], log[j], stages[j],
      extractors[j], calls[j], exc[j], TmpName(j) \in dirs>>

\* file_path = Path(tmpdir) / filename
FilePath(j) == <<TmpName(j), filename[j]>>

\* the last message of an invocation as its own file name, file and answer decide it
Outcome(i) ==
    LET kind == Route(guess_document_type(filename[i])) IN
    IF kind = "none" THEN UnsupportedFormat
    ELSE LET ex == Extractor(kind, file[i]) IN
         IF ex.raised THEN ExtractionFailed
         ELSE IF ~Valid(ex.value) THEN ContentTooSparse
         ELSE LET res == analyze_document_text(ex.value, response[i]) IN
              IF res.raised THEN AnalysisFailed ELSE Result(res.value)

C13_Own ==
    \A i \in DOMAIN pc :
       /\ tmpdir[i] = "exists" => TmpName(i) \in dirs
       /\ tmpdir[i] # "exists" => TmpName(i) \notin dirs
       /\ \A j \in DOMAIN pc \ {i} :
             (tmpdir[i] = "exists" /\ tmpdir[j] = "exists") => FilePath(i) # FilePath(j)
       /\ Ran(i, "extract") /\ ~file[i].corrupt =>
             text[i] = Extractor(Route(doc_type[i]), file[i]).value
       /\ pc[i] = "returned" =>
             LET last == sent[i][Len(sent[i])] IN
             \/ last = Outcome(i)
             \/ Outcome(i) = UnsupportedFormat /\ last = ExtractionFailed

C13_Frame ==
    \E i \in DOMAIN pc : \A j \in DOMAIN pc \ {i} : Locals(j)' = Locals(j)

Replies(i) == {Ack} \cup FailureMessages \cup {Result(analysis_result[i])}

\* C14 as stated: an invocation sends a single text reply
C14_SingleReply == \A i \in Invs : Len(sent[i]) <= 1

\* C14 amended: an invocation sends at most two text replies, the acknowledgment
\* and after it at most one more, and each reply is the acknowledgment, one of the
\* four failure messages or the analysis result text
C14_AtMostTwoReplies ==
    \A i \in Invs :
       /\ Len(sent[i]) <= 2
       /\ \A k \in 1..Len(sent[i]) :
             /\ sent[i][k] \in Replies(i)
             /\ sent[i][k] = Ack <=> k = 1

C14_Witness ==
    \E i \in Invs :
       /\ pc[i] = "returned"
       /\ Len(sent[i]) = 2
       /\ sent[i][1] = Ack
       /\ sent[i][2] = Result(R1)

\* the widest of the sizes of a photo
Widest(photo) ==
    CHOOSE p \in Range(photo) : \A q \in Range(photo) : q.width <= p.width

\* C16: once a photo event is acknowledged, the file identifier is that of the
\* widest size offered, the file name is photo_<file_id>.jpg, the extension routes
\* to the image strategy, no other extractor is called and the unsupported-format
\* reply is never reached
C16_PhotoRoute ==
    \A i \in Invs :
       (message[i].content_type = "photo" /\ tmpdir[i] # "none") =>
          /\ file_id[i] = Widest(message[i].photo).file_id
          /\ filename[i] = <<"p","h","o","t","o","_">> \o file_id[i] \o <<".","j","p","g">>
          /\ Route(guess_document_type(filename[i])) = "image"
          /\ Ran(i, "classify") => Route(doc_type[i]) = "image"
          /\ Range(extractors[i]) \subseteq {"image"}
          /\ pc[i] # "reply_unsupported"
          /\ UnsupportedFormat \notin Range(sent[i])

C16_Witness ==
    \E i \in Invs :
       /\ message[i].content_type = "photo"
       /\ Len(message[i].photo) = 3
       /\ file_id[i] = F3
       /\ extractors[i] = <<"image">>
       /\ ResultSent(i)

\* C17: the download starts only after the acknowledgment was delivered as the
\* first message, and an invocation that returned has sent the acknowledgment and
\* exactly one further message: one failure message or the result, not both
C17_AckThenOne ==
    \A i \in Invs :
       /\ pc[i] = "download" => sent[i] = <<Ack>> /\ file[i] = NoFile
       /\ (file[i] # NoFile \/ exc[i] = "download") => sent[i] # <<>> /\ sent[i][1] = Ack
       /\ pc[i] = "returned" =>
             /\ Len(sent[i]) = 2
             /\ sent[i][1] = Ack
             /\ Cardinality(SentFailures(i)) + (IF ResultSent(i) THEN 1 ELSE 0) = 1
             /\ sent[i][2] \in FailureMessages \/ sent[i][2].kind = "result"

C17_Witness ==
    \E i \in Invs :
       /\ pc[i] = "returned"
       /\ sent[i] = <<Ack, ContentTooSparse>>
       /\ file[i] # NoFile
====
